---- MODULE Spec2Model ----
\* Nuclide reference data and physics formulas of openmc/data/data.py:
\* GNDS nuclide names (gnds_name, zam), natural abundances (isotopes),
\* the lazily loaded atomic-mass and half-life caches (atomic_mass,
\* atomic_weight, half_life, decay_constant) and water_density.
\*
\* Python strings are TLA+ strings; a call's outcome is a record, either
\* [kind |-> "return", val |-> v] or [kind |-> "raise", exc, msg, shown],
\* where exc is the exception class, msg the fixed text of its message and
\* shown the set of values the message is formatted with.
EXTENDS Integers, Sequences, FiniteSets, TLC

VARIABLES
  pc,     \* position of the caller: "call", "returned", "roundtrip"
  op,     \* the function being called
  arg,    \* its argument(s)
  res,    \* outcome of the call
  res2,   \* outcome of feeding res back through the inverse function
  warnings,         \* messages passed to warn() during the call, in order
  mass_file,        \* mass_1.mas20.txt as found on disk
  _ATOMIC_MASS,     \* the module-level cache of atomic_mass
  mass_reads,       \* how many times the mass file has been opened and read
  first,            \* first outcome of atomic_mass (in the half-life
                    \* calls: of half_life) for each isotope asked
  half_life_file,   \* half_life.json as found on disk
  _HALF_LIFE,       \* the module-level cache of half_life
  half_life_reads,  \* how many times half_life.json has been read
  threads           \* the call each thread is in, and where in it

callVars == <<pc, op, arg, res, res2, warnings>>
dataVars ==
  <<mass_file, _ATOMIC_MASS, mass_reads, first,
    half_life_file, _HALF_LIFE, half_life_reads, threads>>
vars ==
  <<pc, op, arg, res, res2, warnings,
    mass_file, _ATOMIC_MASS, mass_reads, first,
    half_life_file, _HALF_LIFE, half_life_reads, threads>>

\* The caches and files as the pure functions leave them: untouched.
NoData ==
  /\ mass_file = [exists |-> FALSE, rows |-> <<>>]
  /\ _ATOMIC_MASS = <<>>
  /\ mass_reads = 0
  /\ first = <<>>
  /\ half_life_file = [exists |-> FALSE, data |-> <<>>]
  /\ _HALF_LIFE = <<>>
  /\ half_life_reads = 0
  /\ threads = <<>>

---------------------------------------------------------------------------
\* Bounds of the model.

\* Largest atomic number offered to gnds_name (118 is the last known one).
MaxZ == 119
\* Largest mass number offered to gnds_name.
MaxA == 110
\* Largest metastable state offered to gnds_name.
MaxM == 2
\* Longest nuclide name offered to zam.
MaxLen == 5
\* Calls are made while the mass table has been opened fewer times than this.
MaxReads == 3
\* A thread in a call is preempted by another at most this often.
MaxSwitches == 1

---------------------------------------------------------------------------
\* Characters and strings.

UpperChars == <<"A", "B", "C", "D", "E", "F", "G", "H", "I", "J", "K", "L", "M",
                "N", "O", "P", "Q", "R", "S", "T", "U", "V", "W", "X", "Y", "Z">>
LowerChars == <<"a", "b", "c", "d", "e", "f", "g", "h", "i", "j", "k", "l", "m",
                "n", "o", "p", "q", "r", "s", "t", "u", "v", "w", "x", "y", "z">>
DigitChars == <<"0", "1", "2", "3", "4", "5", "6", "7", "8", "9">>

Range(seq) == {seq[i] : i \in 1..Len(seq)}

\* s[i-1] in Python terms, "" past the end of s.
Ch(s, i) == IF 1 <= i /\ i <= Len(s) THEN SubSeq(s, i, i) ELSE ""

\* s[i-1:j] in Python terms: a slice is cut to the string, never an error.
Slice(s, i, j) ==
  LET hi == IF j > Len(s) THEN Len(s) ELSE j
  IN  IF i < 1 \/ i > hi THEN "" ELSE SubSeq(s, i, hi)

\* s[i-1:] in Python terms.
From(s, i) == Slice(s, i, Len(s))

\* Number of leading characters of s, from position i on, that are in class.
RECURSIVE RunLen(_, _, _)
RunLen(s, i, class) ==
  IF Ch(s, i) \in class THEN 1 + RunLen(s, i + 1, class) ELSE 0

\* str.lower() of one character and of a string.
LowerChar(c) ==
  IF c \in Range(UpperChars)
    THEN LowerChars[CHOOSE i \in 1..26 : UpperChars[i] = c]
    ELSE c

RECURSIVE lower(_)
lower(s) ==
  IF s = "" THEN "" ELSE LowerChar(Ch(s, 1)) \o lower(From(s, 2))

\* int(s) of a string of decimal digits.
RECURSIVE int(_)
int(s) ==
  IF s = "" THEN 0
  ELSE 10 * int(Slice(s, 1, Len(s) - 1))
         + (CHOOSE d \in 0..9 : DigitChars[d + 1] = Ch(s, Len(s)))

\* str(n), the f-string rendering of a non-negative integer.
RECURSIVE str(_)
str(n) ==
  IF n < 10 THEN DigitChars[n + 1]
  ELSE str(n \div 10) \o DigitChars[(n % 10) + 1]

Return(v) == [kind |-> "return", val |-> v]
Raise(exc, msg, shown) ==
  [kind |-> "raise", exc |-> exc, msg |-> msg, shown |-> shown]
NoResult == [kind |-> "none"]

---------------------------------------------------------------------------
\* Module-level tables.

\* Isotopic abundances as atomic fractions, in units of 1e-8, in the order of
\* the dictionary literal (a Python dict iterates in insertion order).

NATURAL_ABUNDANCE ==
  <<
    <<"H1", 99988500>>, <<"H2", 11500>>, <<"He3", 134>>,
    <<"He4", 99999866>>, <<"Li6", 7590000>>, <<"Li7", 92410000>>,
    <<"Be9", 100000000>>, <<"B10", 19900000>>, <<"B11", 80100000>>,
    <<"C12", 98930000>>, <<"C13", 1070000>>, <<"N14", 99636000>>,
    <<"N15", 364000>>, <<"O16", 99757000>>, <<"O17", 38000>>,
    <<"O18", 205000>>, <<"F19", 100000000>>, <<"Ne20", 90480000>>,
    <<"Ne21", 270000>>, <<"Ne22", 9250000>>, <<"Na23", 100000000>>,
    <<"Mg24", 78990000>>, <<"Mg25", 10000000>>, <<"Mg26", 11010000>>,
    <<"Al27", 100000000>>, <<"Si28", 92223000>>, <<"Si29", 4685000>>,
    <<"Si30", 3092000>>, <<"P31", 100000000>>, <<"S32", 94990000>>,
    <<"S33", 750000>>, <<"S34", 4250000>>, <<"S36", 10000>>,
    <<"Cl35", 75760000>>, <<"Cl37", 24240000>>, <<"Ar36", 333600>>,
    <<"Ar38", 62900>>, <<"Ar40", 99603500>>, <<"K39", 93258100>>,
    <<"K40", 11700>>, <<"K41", 6730200>>, <<"Ca40", 96941000>>,
    <<"Ca42", 647000>>, <<"Ca43", 135000>>, <<"Ca44", 2086000>>,
    <<"Ca46", 4000>>, <<"Ca48", 187000>>, <<"Sc45", 100000000>>,
    <<"Ti46", 8250000>>, <<"Ti47", 7440000>>, <<"Ti48", 73720000>>,
    <<"Ti49", 5410000>>, <<"Ti50", 5180000>>, <<"V50", 250000>>,
    <<"V51", 99750000>>, <<"Cr50", 4345000>>, <<"Cr52", 83789000>>,
    <<"Cr53", 9501000>>, <<"Cr54", 2365000>>, <<"Mn55", 100000000>>,
    <<"Fe54", 5845000>>, <<"Fe56", 91754000>>, <<"Fe57", 2119000>>,
    <<"Fe58", 282000>>, <<"Co59", 100000000>>, <<"Ni58", 68077000>>,
    <<"Ni60", 26223000>>, <<"Ni61", 1139900>>, <<"Ni62", 3634600>>,
    <<"Ni64", 925500>>, <<"Cu63", 69150000>>, <<"Cu65", 30850000>>,
    <<"Zn64", 49170000>>, <<"Zn66", 27730000>>, <<"Zn67", 4040000>>,
    <<"Zn68", 18450000>>, <<"Zn70", 610000>>, <<"Ga69", 60108000>>,
    <<"Ga71", 39892000>>, <<"Ge70", 20570000>>, <<"Ge72", 27450000>>,
    <<"Ge73", 7750000>>, <<"Ge74", 36500000>>, <<"Ge76", 7730000>>,
    <<"As75", 100000000>>, <<"Se74", 890000>>, <<"Se76", 9370000>>,
    <<"Se77", 7630000>>, <<"Se78", 23770000>>, <<"Se80", 49610000>>,
    <<"Se82", 8730000>>, <<"Br79", 50690000>>, <<"Br81", 49310000>>,
    <<"Kr78", 355000>>, <<"Kr80", 2286000>>, <<"Kr82", 11593000>>,
    <<"Kr83", 11500000>>, <<"Kr84", 56987000>>, <<"Kr86", 17279000>>,
    <<"Rb85", 72170000>>, <<"Rb87", 27830000>>, <<"Sr84", 560000>>,
    <<"Sr86", 9860000>>, <<"Sr87", 7000000>>, <<"Sr88", 82580000>>,
    <<"Y89", 100000000>>, <<"Zr90", 51450000>>, <<"Zr91", 11220000>>,
    <<"Zr92", 17150000>>, <<"Zr94", 17380000>>, <<"Zr96", 2800000>>,
    <<"Nb93", 100000000>>, <<"Mo92", 14530000>>, <<"Mo94", 9150000>>,
    <<"Mo95", 15840000>>, <<"Mo96", 16670000>>, <<"Mo97", 9600000>>,
    <<"Mo98", 24390000>>, <<"Mo100", 9820000>>, <<"Ru96", 5540000>>,
    <<"Ru98", 1870000>>, <<"Ru99", 12760000>>, <<"Ru100", 12600000>>,
    <<"Ru101", 17060000>>, <<"Ru102", 31550000>>, <<"Ru104", 18620000>>,
    <<"Rh103", 100000000>>, <<"Pd102", 1020000>>, <<"Pd104", 11140000>>,
    <<"Pd105", 22330000>>, <<"Pd106", 27330000>>, <<"Pd108", 26460000>>,
    <<"Pd110", 11720000>>, <<"Ag107", 51839000>>, <<"Ag109", 48161000>>,
    <<"Cd106", 1250000>>, <<"Cd108", 890000>>, <<"Cd110", 12490000>>,
    <<"Cd111", 12800000>>, <<"Cd112", 24130000>>, <<"Cd113", 12220000>>,
    <<"Cd114", 28730000>>, <<"Cd116", 7490000>>, <<"In113", 4290000>>,
    <<"In115", 95710000>>, <<"Sn112", 970000>>, <<"Sn114", 660000>>,
    <<"Sn115", 340000>>, <<"Sn116", 14540000>>, <<"Sn117", 7680000>>,
    <<"Sn118", 24220000>>, <<"Sn119", 8590000>>, <<"Sn120", 32580000>>,
    <<"Sn122", 4630000>>, <<"Sn124", 5790000>>, <<"Sb121", 57210000>>,
    <<"Sb123", 42790000>>, <<"Te120", 90000>>, <<"Te122", 2550000>>,
    <<"Te123", 890000>>, <<"Te124", 4740000>>, <<"Te125", 7070000>>,
    <<"Te126", 18840000>>, <<"Te128", 31740000>>, <<"Te130", 34080000>>,
    <<"I127", 100000000>>, <<"Xe124", 95200>>, <<"Xe126", 89000>>,
    <<"Xe128", 1910200>>, <<"Xe129", 26400600>>, <<"Xe130", 4071000>>,
    <<"Xe131", 21232400>>, <<"Xe132", 26908600>>, <<"Xe134", 10435700>>,
    <<"Xe136", 8857300>>, <<"Cs133", 100000000>>, <<"Ba130", 106000>>,
    <<"Ba132", 101000>>, <<"Ba134", 2417000>>, <<"Ba135", 6592000>>,
    <<"Ba136", 7854000>>, <<"Ba137", 11232000>>, <<"Ba138", 71698000>>,
    <<"La138", 88810>>, <<"La139", 99911190>>, <<"Ce136", 185000>>,
    <<"Ce138", 251000>>, <<"Ce140", 88450000>>, <<"Ce142", 11114000>>,
    <<"Pr141", 100000000>>, <<"Nd142", 27152000>>, <<"Nd143", 12174000>>,
    <<"Nd144", 23798000>>, <<"Nd145", 8293000>>, <<"Nd146", 17189000>>,
    <<"Nd148", 5756000>>, <<"Nd150", 5638000>>, <<"Sm144", 3070000>>,
    <<"Sm147", 14990000>>, <<"Sm148", 11240000>>, <<"Sm149", 13820000>>,
    <<"Sm150", 7380000>>, <<"Sm152", 26750000>>, <<"Sm154", 22750000>>,
    <<"Eu151", 47810000>>, <<"Eu153", 52190000>>, <<"Gd152", 200000>>,
    <<"Gd154", 2180000>>, <<"Gd155", 14800000>>, <<"Gd156", 20470000>>,
    <<"Gd157", 15650000>>, <<"Gd158", 24840000>>, <<"Gd160", 21860000>>,
    <<"Tb159", 100000000>>, <<"Dy156", 56000>>, <<"Dy158", 95000>>,
    <<"Dy160", 2329000>>, <<"Dy161", 18889000>>, <<"Dy162", 25475000>>,
    <<"Dy163", 24896000>>, <<"Dy164", 28260000>>, <<"Ho165", 100000000>>,
    <<"Er162", 139000>>, <<"Er164", 1601000>>, <<"Er166", 33503000>>,
    <<"Er167", 22869000>>, <<"Er168", 26978000>>, <<"Er170", 14910000>>,
    <<"Tm169", 100000000>>, <<"Yb168", 123000>>, <<"Yb170", 2982000>>,
    <<"Yb171", 14090000>>, <<"Yb172", 21680000>>, <<"Yb173", 16103000>>,
    <<"Yb174", 32026000>>, <<"Yb176", 12996000>>, <<"Lu175", 97401000>>,
    <<"Lu176", 2599000>>, <<"Hf174", 160000>>, <<"Hf176", 5260000>>,
    <<"Hf177", 18600000>>, <<"Hf178", 27280000>>, <<"Hf179", 13620000>>,
    <<"Hf180", 35080000>>, <<"Ta180", 12010>>, <<"Ta181", 99987990>>,
    <<"W180", 120000>>, <<"W182", 26500000>>, <<"W183", 14310000>>,
    <<"W184", 30640000>>, <<"W186", 28430000>>, <<"Re185", 37400000>>,
    <<"Re187", 62600000>>, <<"Os184", 20000>>, <<"Os186", 1590000>>,
    <<"Os187", 1960000>>, <<"Os188", 13240000>>, <<"Os189", 16150000>>,
    <<"Os190", 26260000>>, <<"Os192", 40780000>>, <<"Ir191", 37300000>>,
    <<"Ir193", 62700000>>, <<"Pt190", 12000>>, <<"Pt192", 782000>>,
    <<"Pt194", 32860000>>, <<"Pt195", 33780000>>, <<"Pt196", 25210000>>,
    <<"Pt198", 7356000>>, <<"Au197", 100000000>>, <<"Hg196", 150000>>,
    <<"Hg198", 9970000>>, <<"Hg199", 16870000>>, <<"Hg200", 23100000>>,
    <<"Hg201", 13180000>>, <<"Hg202", 29860000>>, <<"Hg204", 6870000>>,
    <<"Tl203", 29520000>>, <<"Tl205", 70480000>>, <<"Pb204", 1400000>>,
    <<"Pb206", 24100000>>, <<"Pb207", 22100000>>, <<"Pb208", 52400000>>,
    <<"Bi209", 100000000>>, <<"Th232", 100000000>>, <<"Pa231", 100000000>>,
    <<"U234", 5400>>, <<"U235", 720400>>, <<"U238", 99274200>>
  >>

\* Element symbols from (lower-case) IUPAC names and some common misspellings.

ELEMENT_SYMBOL ==
  <<
    <<"neutron", "n">>, <<"hydrogen", "H">>, <<"helium", "He">>,
    <<"lithium", "Li">>, <<"beryllium", "Be">>, <<"boron", "B">>,
    <<"carbon", "C">>, <<"nitrogen", "N">>, <<"oxygen", "O">>,
    <<"fluorine", "F">>, <<"neon", "Ne">>, <<"sodium", "Na">>,
    <<"magnesium", "Mg">>, <<"aluminium", "Al">>, <<"aluminum", "Al">>,
    <<"silicon", "Si">>, <<"phosphorus", "P">>, <<"sulfur", "S">>,
    <<"sulphur", "S">>, <<"chlorine", "Cl">>, <<"argon", "Ar">>,
    <<"potassium", "K">>, <<"calcium", "Ca">>, <<"scandium", "Sc">>,
    <<"titanium", "Ti">>, <<"vanadium", "V">>, <<"chromium", "Cr">>,
    <<"manganese", "Mn">>, <<"iron", "Fe">>, <<"cobalt", "Co">>,
    <<"nickel", "Ni">>, <<"copper", "Cu">>, <<"zinc", "Zn">>,
    <<"gallium", "Ga">>, <<"germanium", "Ge">>, <<"arsenic", "As">>,
    <<"selenium", "Se">>, <<"bromine", "Br">>, <<"krypton", "Kr">>,
    <<"rubidium", "Rb">>, <<"strontium", "Sr">>, <<"yttrium", "Y">>,
    <<"zirconium", "Zr">>, <<"niobium", "Nb">>, <<"molybdenum", "Mo">>,
    <<"technetium", "Tc">>, <<"ruthenium", "Ru">>, <<"rhodium", "Rh">>,
    <<"palladium", "Pd">>, <<"silver", "Ag">>, <<"cadmium", "Cd">>,
    <<"indium", "In">>, <<"tin", "Sn">>, <<"antimony", "Sb">>,
    <<"tellurium", "Te">>, <<"iodine", "I">>, <<"xenon", "Xe">>,
    <<"caesium", "Cs">>, <<"cesium", "Cs">>, <<"barium", "Ba">>,
    <<"lanthanum", "La">>, <<"cerium", "Ce">>, <<"praseodymium", "Pr">>,
    <<"neodymium", "Nd">>, <<"promethium", "Pm">>, <<"samarium", "Sm">>,
    <<"europium", "Eu">>, <<"gadolinium", "Gd">>, <<"terbium", "Tb">>,
    <<"dysprosium", "Dy">>, <<"holmium", "Ho">>, <<"erbium", "Er">>,
    <<"thulium", "Tm">>, <<"ytterbium", "Yb">>, <<"lutetium", "Lu">>,
    <<"hafnium", "Hf">>, <<"tantalum", "Ta">>, <<"tungsten", "W">>,
    <<"wolfram", "W">>, <<"rhenium", "Re">>, <<"osmium", "Os">>,
    <<"iridium", "Ir">>, <<"platinum", "Pt">>, <<"gold", "Au">>,
    <<"mercury", "Hg">>, <<"thallium", "Tl">>, <<"lead", "Pb">>,
    <<"bismuth", "Bi">>, <<"polonium", "Po">>, <<"astatine", "At">>,
    <<"radon", "Rn">>, <<"francium", "Fr">>, <<"radium", "Ra">>,
    <<"actinium", "Ac">>, <<"thorium", "Th">>, <<"protactinium", "Pa">>,
    <<"uranium", "U">>, <<"neptunium", "Np">>, <<"plutonium", "Pu">>,
    <<"americium", "Am">>, <<"curium", "Cm">>, <<"berkelium", "Bk">>,
    <<"californium", "Cf">>, <<"einsteinium", "Es">>, <<"fermium", "Fm">>,
    <<"mendelevium", "Md">>, <<"nobelium", "No">>, <<"lawrencium", "Lr">>,
    <<"rutherfordium", "Rf">>, <<"dubnium", "Db">>, <<"seaborgium", "Sg">>,
    <<"bohrium", "Bh">>, <<"hassium", "Hs">>, <<"meitnerium", "Mt">>,
    <<"darmstadtium", "Ds">>, <<"roentgenium", "Rg">>,
    <<"copernicium", "Cn">>, <<"nihonium", "Nh">>, <<"flerovium", "Fl">>,
    <<"moscovium", "Mc">>, <<"livermorium", "Lv">>, <<"tennessine", "Ts">>,
    <<"oganesson", "Og">>
  >>

\* ATOMIC_SYMBOL[Z] is the symbol of atomic number Z, Z = 0 (the neutron) to 118.

ATOMIC_SYMBOL ==
  LET symbols ==
    <<
      "n", "H", "He", "Li", "Be", "B", "C", "N", "O", "F", "Ne", "Na",
      "Mg", "Al", "Si", "P", "S", "Cl", "Ar", "K", "Ca", "Sc", "Ti", "V",
      "Cr", "Mn", "Fe", "Co", "Ni", "Cu", "Zn", "Ga", "Ge", "As", "Se",
      "Br", "Kr", "Rb", "Sr", "Y", "Zr", "Nb", "Mo", "Tc", "Ru", "Rh",
      "Pd", "Ag", "Cd", "In", "Sn", "Sb", "Te", "I", "Xe", "Cs", "Ba",
      "La", "Ce", "Pr", "Nd", "Pm", "Sm", "Eu", "Gd", "Tb", "Dy", "Ho",
      "Er", "Tm", "Yb", "Lu", "Hf", "Ta", "W", "Re", "Os", "Ir", "Pt",
      "Au", "Hg", "Tl", "Pb", "Bi", "Po", "At", "Rn", "Fr", "Ra", "Ac",
      "Th", "Pa", "U", "Np", "Pu", "Am", "Cm", "Bk", "Cf", "Es", "Fm",
      "Md", "No", "Lr", "Rf", "Db", "Sg", "Bh", "Hs", "Mt", "Ds", "Rg",
      "Cn", "Nh", "Fl", "Mc", "Lv", "Ts", "Og"
    >>
  IN  [Z \in 0..118 |-> symbols[Z + 1]]

\* ATOMIC_NUMBER = {value: key for key, value in ATOMIC_SYMBOL.items()}
ATOMIC_NUMBER ==
  [s \in {ATOMIC_SYMBOL[Z] : Z \in DOMAIN ATOMIC_SYMBOL} |->
     CHOOSE Z \in DOMAIN ATOMIC_SYMBOL : ATOMIC_SYMBOL[Z] = s]

---------------------------------------------------------------------------
\* GNDS nuclide names.

\* _GNDS_NAME_RE.match(name) for r'([A-Zn][a-z]*)(\d+)((?:_[em]\d+)?)'.
\* match anchors at the start only.  Each quantifier is greedy and none can
\* give characters back to a later part (a lower-case letter is no digit, a
\* digit is no "_"), so the groups are the maximal runs.
_GNDS_NAME_RE(name) ==
  LET k == RunLen(name, 2, Range(LowerChars))
      d == RunLen(name, 2 + k, Range(DigitChars))
      p == 2 + k + d
      e == IF Ch(name, p) = "_" /\ Ch(name, p + 1) \in {"e", "m"}
             THEN RunLen(name, p + 2, Range(DigitChars))
             ELSE 0
  IN  IF Ch(name, 1) \in Range(UpperChars) \cup {"n"} /\ d >= 1
        THEN [matched |-> TRUE,
              symbol  |-> Slice(name, 1, 1 + k),
              A       |-> Slice(name, 2 + k, p - 1),
              state   |-> IF e >= 1 THEN Slice(name, p, p + 1 + e) ELSE ""]
        ELSE [matched |-> FALSE]

\* gnds_name with the metastable test off by one (m > 1 for m > 0).
gnds_name_m_gt_1(Z, A, m) ==
  IF Z \notin DOMAIN ATOMIC_SYMBOL
    THEN Raise("KeyError", "", {Z})
  ELSE IF m > 1
    THEN Return(ATOMIC_SYMBOL[Z] \o str(A) \o "_m" \o str(m))
  ELSE Return(ATOMIC_SYMBOL[Z] \o str(A))

gnds_name(Z, A, m) ==
  IF Z \notin DOMAIN ATOMIC_SYMBOL
    THEN Raise("KeyError", "", {Z})
  ELSE IF m > 0
    THEN Return(ATOMIC_SYMBOL[Z] \o str(A) \o "_m" \o str(m))
  ELSE Return(ATOMIC_SYMBOL[Z] \o str(A))

\* zam that drops the metastable suffix it has matched.
zam_state_ignored(name) ==
  LET g == _GNDS_NAME_RE(name) IN
  IF ~g.matched
    THEN Raise("ValueError",
               "does not appear to be a nuclide name in GNDS format", {name})
  ELSE IF g.symbol \notin DOMAIN ATOMIC_NUMBER
    THEN Raise("ValueError", "is not a recognized element symbol", {g.symbol})
  ELSE Return(<<ATOMIC_NUMBER[g.symbol], int(g.A), 0>>)

zam(name) ==
  LET g == _GNDS_NAME_RE(name) IN
  IF ~g.matched
    THEN Raise("ValueError",
               "does not appear to be a nuclide name in GNDS format", {name})
  ELSE IF g.symbol \notin DOMAIN ATOMIC_NUMBER
    THEN Raise("ValueError", "is not a recognized element symbol", {g.symbol})
  ELSE LET metastable == IF g.state # "" THEN int(From(g.state, 3)) ELSE 0
       IN  Return(<<ATOMIC_NUMBER[g.symbol], int(g.A), metastable>>)

---------------------------------------------------------------------------
\* The codec on its own: a caller holds either a triple or a name, calls the
\* matching function, and feeds a returned value through the other one.

NameChars == {"H", "e", "n", "m", "_", "0", "1"}

RECURSIVE NamesOfLen(_)
NamesOfLen(n) ==
  IF n = 0 THEN {""}
  ELSE {s \o c : s \in NamesOfLen(n - 1), c \in NameChars}

Names == UNION {NamesOfLen(n) : n \in 0..MaxLen}

Triples == (0..MaxZ) \X (0..MaxA) \X (0..MaxM)

InitCodec ==
  /\ pc = "call"
  /\ \/ op = "gnds_name" /\ arg \in Triples
     \/ op = "zam" /\ arg \in Names
  /\ res = NoResult
  /\ res2 = NoResult
  /\ warnings = <<>>
  /\ NoData

CallGndsName ==
  /\ pc = "call" /\ op = "gnds_name"
  /\ res' = gnds_name(arg[1], arg[2], arg[3])
  /\ pc' = "returned"
  /\ UNCHANGED <<op, arg, res2, warnings>>
  /\ UNCHANGED dataVars

CallZam ==
  /\ pc = "call" /\ op = "zam"
  /\ res' = zam(arg)
  /\ pc' = "returned"
  /\ UNCHANGED <<op, arg, res2, warnings>>
  /\ UNCHANGED dataVars

\* zam(gnds_name(Z, A, m))
DecodeEncoded ==
  /\ pc = "returned" /\ op = "gnds_name" /\ res.kind = "return"
  /\ res2' = zam(res.val)
  /\ pc' = "roundtrip"
  /\ UNCHANGED <<op, arg, res, warnings>>
  /\ UNCHANGED dataVars

\* gnds_name(*zam(name))
EncodeDecoded ==
  /\ pc = "returned" /\ op = "zam" /\ res.kind = "return"
  /\ res2' = gnds_name(res.val[1], res.val[2], res.val[3])
  /\ pc' = "roundtrip"
  /\ UNCHANGED <<op, arg, res, warnings>>
  /\ UNCHANGED dataVars

NextCodec == CallGndsName \/ CallZam \/ DecodeEncoded \/ EncodeDecoded

SpecCodec == InitCodec /\ [][NextCodec]_vars

---------------------------------------------------------------------------
\* Natural abundances.

\* dict.get(key) on a table of <<key, value>> pairs.
DictGet(table, key) ==
  LET hits == {i \in 1..Len(table) : table[i][1] = key}
  IN  IF hits = {} THEN [found |-> FALSE]
      ELSE [found |-> TRUE, value |-> table[CHOOSE i \in hits : TRUE][2]]

\* re.match(r'{}\d+'.format(element), key): the characters of element, with
\* "." standing for any character as in every pattern, then a digit.
MatchesElement(element, key) ==
  /\ \A i \in 1..Len(element) :
        \/ Ch(element, i) = Ch(key, i)
        \/ Ch(element, i) = "." /\ Ch(key, i) # ""
  /\ Ch(key, Len(element) + 1) \in Range(DigitChars)

\* isotopes with the length test taken as "longer than 1".
isotopes_names_from_2(element) ==
  LET named == DictGet(ELEMENT_SYMBOL, lower(element))
      symbol == IF Len(element) > 1 THEN named.value ELSE element
  IN  IF Len(element) > 1 /\ ~named.found
        THEN Raise("ValueError", "Element name not recognised", {element})
      ELSE Return(SelectSeq(NATURAL_ABUNDANCE,
                            LAMBDA kv : MatchesElement(symbol, kv[1])))

isotopes(element) ==
  LET named == DictGet(ELEMENT_SYMBOL, lower(element))
      symbol == IF Len(element) > 2 THEN named.value ELSE element
  IN  IF Len(element) > 2 /\ ~named.found
        THEN Raise("ValueError", "Element name not recognised", {element})
      ELSE Return(SelectSeq(NATURAL_ABUNDANCE,
                            LAMBDA kv : MatchesElement(symbol, kv[1])))

\* str.upper() of one character and of a string, to spell the arguments.
UpperChar(c) ==
  IF c \in Range(LowerChars)
    THEN UpperChars[CHOOSE i \in 1..26 : LowerChars[i] = c]
    ELSE c

RECURSIVE upper(_)
upper(s) ==
  IF s = "" THEN "" ELSE UpperChar(Ch(s, 1)) \o upper(From(s, 2))

\* Arguments offered to isotopes: every symbol, every listed name in lower
\* case, capitalised and in upper case, and strings that name no element.
ElementNames == {ELEMENT_SYMBOL[i][1] : i \in 1..Len(ELEMENT_SYMBOL)}
ElementArgs ==
  {ATOMIC_SYMBOL[Z] : Z \in DOMAIN ATOMIC_SYMBOL}
    \cup ElementNames
    \cup {UpperChar(Ch(n, 1)) \o From(n, 2) : n \in ElementNames}
    \cup {upper(n) : n \in ElementNames}
    \cup {"", "X", "h", "Xx", "he", "B.", "Unobtainium", "hydrogen1"}

InitIsotopes ==
  /\ pc = "call"
  /\ op = "isotopes"
  /\ arg \in ElementArgs
  /\ res = NoResult
  /\ res2 = NoResult
  /\ warnings = <<>>
  /\ NoData

CallIsotopes ==
  /\ pc = "call" /\ op = "isotopes"
  /\ res' = isotopes(arg)
  /\ pc' = "returned"
  /\ UNCHANGED <<op, arg, res2, warnings>>
  /\ UNCHANGED dataVars

NextIsotopes == CallIsotopes

SpecIsotopes == InitIsotopes /\ [][NextIsotopes]_vars

---------------------------------------------------------------------------
\* Atomic masses.  A mass is a pair <<whole amu, 1e-8 amu>>, so that the
\* sums of abundance x mass are exact integers.

Plus(x, y) ==
  LET f == x[2] + y[2]
  IN  <<x[1] + y[1] + f \div 100000000, f % 100000000>>

\* abundance * mass, abundance in units of 1e-8, cut to 1e-8 amu.  The
\* products are taken in halves of four digits to stay within 32 bits.
Times(abundance, mass) ==
  LET ah == abundance \div 10000
      al == abundance % 10000
      fh == mass[2] \div 10000
      fl == mass[2] % 10000
      t  == ah * mass[1] + (al * mass[1]) \div 10000
      of_whole == <<t \div 10000, (t % 10000) * 10000 + ((al * mass[1]) % 10000)>>
      of_frac  == ah * fh + (ah * fl + al * fh + (al * fl) \div 10000) \div 10000
  IN  Plus(of_whole, <<of_frac \div 100000000, of_frac % 100000000>>)

\* str.strip() for blanks.
RECURSIVE strip(_)
strip(s) ==
  IF Ch(s, 1) = " " THEN strip(From(s, 2))
  ELSE IF Ch(s, Len(s)) = " " THEN strip(Slice(s, 1, Len(s) - 1))
  ELSE s

\* Whether int(s) and float(s) accept the field s: digits between blanks.
IsNumber(s) ==
  /\ strip(s) # ""
  /\ \A i \in 1..Len(strip(s)) : Ch(strip(s), i) \in Range(DigitChars)

\* One data line of the mass table, by the columns the loader slices:
\* line[16:19], line[20:22], line[106:109], line[110:116], line[117:123].
Row(A, el, amu, micro, submicro) ==
  [A |-> A, el |-> el, amu |-> amu, micro |-> micro, submicro |-> submicro]

\* A line cut short: every slice of it is empty.
BlankRow == Row("", "", "", "", "")

\* Rows of the table in its order (by mass number, then atomic number): the
\* neutron, hydrogen, and every natural isotope of the five elements that
\* get a lumped entry.
FullTable ==
  <<
    Row("  1", "n ", "  1", "008664", "000000"),
    Row("  1", "H ", "  1", "007825", "000000"),
    Row("  2", "H ", "  2", "014101", "000000"),
    Row(" 12", "C ", " 12", "000000", "000000"),
    Row(" 13", "C ", " 13", "003354", "000000"),
    Row(" 64", "Zn", " 63", "929142", "000000"),
    Row(" 66", "Zn", " 65", "926033", "000000"),
    Row(" 67", "Zn", " 66", "927127", "000000"),
    Row(" 68", "Zn", " 67", "924844", "000000"),
    Row(" 70", "Zn", " 69", "925319", "000000"),
    Row("184", "Os", "183", "952488", "000000"),
    Row("186", "Os", "185", "953835", "000000"),
    Row("187", "Os", "186", "955747", "000000"),
    Row("188", "Os", "187", "955835", "000000"),
    Row("189", "Os", "188", "958144", "000000"),
    Row("190", "Os", "189", "958443", "000000"),
    Row("190", "Pt", "189", "959949", "000000"),
    Row("192", "Os", "191", "961477", "000000"),
    Row("192", "Pt", "191", "961042", "000000"),
    Row("194", "Pt", "193", "962680", "000000"),
    Row("195", "Pt", "194", "964791", "000000"),
    Row("196", "Pt", "195", "964952", "000000"),
    Row("198", "Pt", "197", "967894", "000000"),
    Row("203", "Tl", "202", "972344", "000000"),
    Row("205", "Tl", "204", "974427", "000000")
  >>

\* The file as it may be found: the full table; the table cut short inside
\* line k; the table without line k; or no file at all.
FullFile == [exists |-> TRUE, rows |-> FullTable]
CutAt == {1, 4, 5, 25}
Without == {5, 18, 25}
MassFiles ==
  {FullFile, [exists |-> FALSE, rows |-> <<>>]}
    \cup {[exists |-> TRUE,
           rows |-> SubSeq(FullTable, 1, k - 1) \o <<BlankRow>>] : k \in CutAt}
    \cup {[exists |-> TRUE,
           rows |-> SubSeq(FullTable, 1, k - 1)
                      \o SubSeq(FullTable, k + 1, Len(FullTable))] :
            k \in Without}

\* cache[key] = value
Put(cache, key, value) ==
  (key :> value) @@ cache

\* for element in ['C', 'Zn', 'Pt', 'Os', 'Tl']
Lumped == <<"C", "Zn", "Pt", "Os", "Tl">>

\* isotopes(element) of each of them, in that order.
LumpedIsotopes ==
  <<isotopes("C").val, isotopes("Zn").val, isotopes("Pt").val,
    isotopes("Os").val, isotopes("Tl").val>>

\* A call of atomic_mass at its start: where it is (at), the line, element
\* and isotope it has reached, the sum read for +=, and its outcome.
MassCall(isotope) ==
  [at |-> "check", i |-> 0, e |-> 0, j |-> 0, acc |-> <<0, 0>>,
   isotope |-> isotope, out |-> NoResult]

\* Where the loader goes after line i, and after isotope j of element e.
AfterRow(file, l) ==
  IF l.i < Len(file.rows) THEN [l EXCEPT !.at = "row", !.i = l.i + 1]
  ELSE [l EXCEPT !.at = "zero", !.e = 1]

AfterIsotope(l) ==
  IF l.j < Len(LumpedIsotopes[l.e])
    THEN [l EXCEPT !.at = "add_read", !.j = l.j + 1]
  ELSE IF l.e < Len(Lumped) THEN [l EXCEPT !.at = "zero", !.e = l.e + 1]
  ELSE [l EXCEPT !.at = "lookup"]

Raised(l, outcome) == [l EXCEPT !.at = "done", !.out = outcome]

\* One step of atomic_mass(isotope): [cache, reads, l] after it.  A step is
\* what a thread does without another thread getting in between: the test
\* of the cache, the open, one line, one store.
atomic_mass_step(file, cache, reads, l) ==
  LET same(l2) == [cache |-> cache, reads |-> reads, l |-> l2]
      row == file.rows[l.i]
      isotope_zero == lower(Lumped[l.e]) \o "0"
      item == LumpedIsotopes[l.e][l.j]
      key == IF l.at = "lookup"
               THEN lower(IF \E n \in 1..Len(l.isotope) : Ch(l.isotope, n) = "_"
                            THEN Slice(l.isotope, 1,
                                   RunLen(l.isotope, 1,
                                          {Ch(l.isotope, n) : n \in 1..Len(l.isotope)} \ {"_"}))
                            ELSE l.isotope)
               ELSE lower(item[1])
  IN  CASE l.at = "check" ->
             \* if not _ATOMIC_MASS:
             same([l EXCEPT !.at = IF DOMAIN cache = {} THEN "open" ELSE "lookup"])
        [] l.at = "open" ->
             \* with open(mass_file, 'r') as ame: ... islice(ame, 36, None)
             IF ~file.exists
               THEN same(Raised(l, Raise("FileNotFoundError",
                                         "No such file or directory", {})))
             ELSE [cache |-> cache, reads |-> reads + 1,
                   l |-> AfterRow(file, l)]
        [] l.at = "row" ->
             IF ~IsNumber(row.A)
               THEN same(Raised(l, Raise("ValueError",
                           "invalid literal for int() with base 10", {row.A})))
             ELSE IF ~IsNumber(row.amu)
               THEN same(Raised(l, Raise("ValueError",
                           "could not convert string to float", {row.amu})))
             ELSE IF ~IsNumber(row.micro) \/ ~IsNumber(row.submicro)
               THEN same(Raised(l, Raise("ValueError",
                           "could not convert string to float",
                           {row.micro \o "." \o row.submicro})))
             ELSE [cache |->
                     Put(cache,
                         lower(strip(row.el) \o str(int(strip(row.A)))),
                         <<int(strip(row.amu)),
                           100 * int(row.micro) + int(Slice(row.submicro, 1, 2))>>),
                   reads |-> reads,
                   l |-> AfterRow(file, l)]
        [] l.at = "zero" ->
             \* _ATOMIC_MASS[isotope_zero] = 0.
             [cache |-> Put(cache, isotope_zero, <<0, 0>>),
              reads |-> reads,
              l |-> AfterIsotope([l EXCEPT !.j = 0])]
        [] l.at = "add_read" ->
             \* _ATOMIC_MASS[isotope_zero] += abundance * _ATOMIC_MASS[iso.lower()]
             \* reads both entries and adds,
             IF key \notin DOMAIN cache
               THEN same(Raised(l, Raise("KeyError", "", {key})))
             ELSE same([l EXCEPT !.at = "add_write",
                                 !.acc = Plus(cache[isotope_zero],
                                              Times(item[2], cache[key]))])
        [] l.at = "add_write" ->
             \* then stores the sum.
             [cache |-> Put(cache, isotope_zero, l.acc),
              reads |-> reads,
              l |-> AfterIsotope(l)]
        [] l.at = "lookup" ->
             \* return _ATOMIC_MASS[isotope.lower()], metastable suffix cut
             same([l EXCEPT !.at = "done",
                            !.out = IF key \in DOMAIN cache
                                      THEN Return(cache[key])
                                      ELSE Raise("KeyError", "", {key})])

\* No call takes more steps than this: the test, the open, every line, and
\* a store and an addition in two halves for every abundance entry.
StepsOf(file) ==
  3 + Len(file.rows) + Len(Lumped) + 2 * Len(NATURAL_ABUNDANCE)

\* A call run on from s = [cache, reads, l] for at most n steps with no
\* other thread in between, by halves of n.
RECURSIVE atomic_mass_run(_, _, _)
atomic_mass_run(file, s, n) ==
  IF s.l.at = "done" \/ n = 0 THEN s
  ELSE IF n = 1 THEN atomic_mass_step(file, s.cache, s.reads, s.l)
  ELSE atomic_mass_run(file, atomic_mass_run(file, s, n \div 2), n - n \div 2)

\* atomic_mass(isotope): [cache, reads, out].
atomic_mass(file, cache, reads, isotope) ==
  LET r == atomic_mass_run(file,
                           [cache |-> cache, reads |-> reads,
                            l |-> MassCall(isotope)],
                           StepsOf(file))
  IN  [cache |-> r.cache, reads |-> r.reads, out |-> r.l.out]

\* The cache after a load of the full table that nothing interrupts.
CompleteCache == atomic_mass(FullFile, <<>>, 0, "C12").cache

\* The addition with the abundance left out.
AddMass_abundance_dropped(m, abundance, weight) ==
  IF m.out.kind = "raise" THEN m
  ELSE [cache |-> m.cache, reads |-> m.reads,
        out |-> Return(Plus(weight, m.out.val))]

\* weight += atomic_mass(nuclide) * abundance, m being what the call of
\* atomic_mass gave: its exception goes up, else its mass is added.
AddMass(m, abundance, weight) ==
  IF m.out.kind = "raise" THEN m
  ELSE [cache |-> m.cache, reads |-> m.reads,
        out |-> Return(Plus(weight, Times(abundance, m.out.val)))]

\* The loop of atomic_weight from item k on; s = [cache, reads, out] holds
\* the weight so far in out.
RECURSIVE atomic_weight_loop(_, _, _, _)
atomic_weight_loop(file, s, items, k) ==
  IF k > Len(items) \/ s.out.kind = "raise" THEN s
  ELSE atomic_weight_loop(file,
         AddMass(atomic_mass(file, s.cache, s.reads, items[k][1]),
                 items[k][2], s.out.val),
         items, k + 1)

\* atomic_weight(element): [cache, reads, out].
atomic_weight(file, cache, reads, element) ==
  LET found == isotopes(element)
      r == atomic_weight_loop(file,
                              [cache |-> cache, reads |-> reads,
                               out |-> Return(<<0, 0>>)],
                              found.val, 1)
  IN  IF found.kind = "raise"
        THEN [cache |-> cache, reads |-> reads, out |-> found]
      ELSE IF r.out.kind = "raise" THEN r
      ELSE IF r.out.val[1] > 0 \/ r.out.val[2] > 0 THEN r
      ELSE [cache |-> r.cache, reads |-> r.reads,
            out |-> Raise("ValueError",
                          "No naturally-occurring isotopes for element",
                          {element})]

\* The caller of the mass functions: any file, then any calls in sequence.
IsotopeArgs == {"C12", "C0", "Tl0", "Tl205_m1", "Xx999"}
WeightArgs == {"H", "C", "Tl", "Tc", "Xx", "carbon", "Technetium",
               "Unobtainium"}

Init ==
  /\ pc = "call"
  /\ op = "none"
  /\ arg = ""
  /\ res = NoResult
  /\ res2 = NoResult
  /\ warnings = <<>>
  /\ mass_file \in MassFiles
  /\ _ATOMIC_MASS = <<>>
  /\ mass_reads = 0
  /\ first = [isotope \in IsotopeArgs |-> NoResult]
  /\ half_life_file = [exists |-> FALSE, data |-> <<>>]
  /\ _HALF_LIFE = <<>>
  /\ half_life_reads = 0
  /\ threads = <<>>

CallAtomicMass ==
  \E isotope \in IsotopeArgs :
  \E r \in {atomic_mass(mass_file, _ATOMIC_MASS, mass_reads, isotope)} :
    /\ mass_reads < MaxReads
    /\ _ATOMIC_MASS' = r.cache
    /\ mass_reads' = r.reads
    /\ op' = "atomic_mass" /\ arg' = isotope /\ res' = r.out
    /\ pc' = "returned"
    /\ first' = IF first[isotope].kind = "none"
                  THEN [first EXCEPT ![isotope] = r.out]
                  ELSE first
    /\ UNCHANGED <<res2, warnings, mass_file,
                   half_life_file, _HALF_LIFE, half_life_reads, threads>>

CallAtomicWeight ==
  \E element \in WeightArgs :
  \E r \in {atomic_weight(mass_file, _ATOMIC_MASS, mass_reads, element)} :
    /\ mass_reads < MaxReads
    /\ _ATOMIC_MASS' = r.cache
    /\ mass_reads' = r.reads
    /\ op' = "atomic_weight" /\ arg' = element /\ res' = r.out
    /\ pc' = "returned"
    /\ UNCHANGED <<res2, warnings, mass_file, first,
                   half_life_file, _HALF_LIFE, half_life_reads, threads>>

Next == CallAtomicMass \/ CallAtomicWeight

Spec == Init /\ [][Next]_vars

---------------------------------------------------------------------------
\* half_life, and calls made from several threads.  The half-life dataset
\* maps lower-case names to seconds.

\* What dict.get gives: None for a missing key, else the number stored.
\* The two are kept apart as the empty tuple and a tuple of the number.
None == <<>>
Float(t) == <<t>>

HalfLifeData == [h3 |-> 388789632, tc99_m1 |-> 21624]

\* A call of half_life at its start: text is what read_text() gave.
HalfLifeCall(isotope) ==
  [at |-> "check", isotope |-> isotope, text |-> <<>>, out |-> NoResult]

\* One step of half_life(isotope): [cache, reads, l] after it.  The test of
\* the cache, the read of the file, the assignment of the parsed mapping
\* and the lookup are steps another thread can get between.
half_life_step(file, cache, reads, l) ==
  CASE l.at = "check" ->
         \* if not _HALF_LIFE:
         [cache |-> cache, reads |-> reads,
          l |-> [l EXCEPT !.at = IF DOMAIN cache = {} THEN "read" ELSE "get"]]
    [] l.at = "read" ->
         \* half_life_path.read_text()
         IF ~file.exists
           THEN [cache |-> cache, reads |-> reads,
                 l |-> Raised(l, Raise("FileNotFoundError",
                                       "No such file or directory", {}))]
         ELSE [cache |-> cache, reads |-> reads + 1,
               l |-> [l EXCEPT !.at = "assign", !.text = file.data]]
    [] l.at = "assign" ->
         \* _HALF_LIFE = json.loads(...)
         [cache |-> l.text, reads |-> reads, l |-> [l EXCEPT !.at = "get"]]
    [] l.at = "get" ->
         \* return _HALF_LIFE.get(isotope.lower())
         [cache |-> cache, reads |-> reads,
          l |-> [l EXCEPT !.at = "done",
                          !.out = IF lower(l.isotope) \in DOMAIN cache
                                    THEN Return(Float(cache[lower(l.isotope)]))
                                    ELSE Return(None)]]

\* The threads, and the isotope each function is called with.
Threads == {"t1", "t2"}
ThreadMassIsotope == "Tl0"
ThreadHalfLifeIsotope == "H3"

\* Both caches empty, both files in place, no thread in a call yet.
\* threads.of[t] is the call thread t is in, threads.running the thread that
\* took the last step, threads.switches how often a thread was preempted.
InitThreads ==
  /\ pc = "call"
  /\ op = "none"
  /\ arg = ""
  /\ res = NoResult
  /\ res2 = NoResult
  /\ warnings = <<>>
  /\ mass_file = FullFile
  /\ _ATOMIC_MASS = <<>>
  /\ mass_reads = 0
  /\ first = <<>>
  /\ half_life_file = [exists |-> TRUE, data |-> HalfLifeData]
  /\ _HALF_LIFE = <<>>
  /\ half_life_reads = 0
  /\ threads = [of |-> [t \in Threads |-> [fn |-> "none"]],
                running |-> "none", switches |-> 0]

\* Whether thread t may take a step: it is the running one, or the running
\* one has returned, or one more preemption is within the bound.
MayRun(t) ==
  IF threads.running \in {"none", t} THEN TRUE
  ELSE IF threads.of[threads.running].l.at = "done" THEN TRUE
  ELSE threads.switches < MaxSwitches

\* threads after thread t took a step that left its call as call.
Ran(t, call) ==
  [of |-> [threads.of EXCEPT ![t] = call],
   running |-> t,
   switches |-> IF threads.running \in {"none", t} THEN threads.switches
                ELSE IF threads.of[threads.running].l.at = "done"
                  THEN threads.switches
                ELSE threads.switches + 1]

\* A thread enters atomic_mass, or half_life.  complete notes whether the
\* cache its final lookup read was the complete one.
StartAtomicMass ==
  \E t \in Threads :
    /\ threads.of[t].fn = "none"
    /\ threads' = [threads EXCEPT
                     !.of[t] = [fn |-> "atomic_mass",
                                l |-> MassCall(ThreadMassIsotope),
                                complete |-> FALSE]]
    /\ UNCHANGED <<callVars, mass_file, _ATOMIC_MASS, mass_reads, first,
                   half_life_file, _HALF_LIFE, half_life_reads>>

StartHalfLife ==
  \E t \in Threads :
    /\ threads.of[t].fn = "none"
    /\ threads' = [threads EXCEPT
                     !.of[t] = [fn |-> "half_life",
                                l |-> HalfLifeCall(ThreadHalfLifeIsotope),
                                complete |-> FALSE]]
    /\ UNCHANGED <<callVars, mass_file, _ATOMIC_MASS, mass_reads, first,
                   half_life_file, _HALF_LIFE, half_life_reads>>

\* A thread inside atomic_mass takes its next step.
StepAtomicMass ==
  \E t \in Threads :
    /\ threads.of[t].fn = "atomic_mass"
    /\ threads.of[t].l.at # "done"
    /\ MayRun(t)
    /\ \E r \in {atomic_mass_step(mass_file, _ATOMIC_MASS, mass_reads,
                                   threads.of[t].l)} :
         /\ _ATOMIC_MASS' = r.cache
         /\ mass_reads' = r.reads
         /\ threads' =
              Ran(t, [fn |-> "atomic_mass", l |-> r.l,
                      complete |-> IF threads.of[t].l.at = "lookup"
                                     THEN _ATOMIC_MASS = CompleteCache
                                     ELSE threads.of[t].complete])
    /\ UNCHANGED <<callVars, mass_file, first,
                   half_life_file, _HALF_LIFE, half_life_reads>>

\* A thread inside half_life takes its next step.
StepHalfLife ==
  \E t \in Threads :
    /\ threads.of[t].fn = "half_life"
    /\ threads.of[t].l.at # "done"
    /\ MayRun(t)
    /\ \E r \in {half_life_step(half_life_file, _HALF_LIFE, half_life_reads,
                                 threads.of[t].l)} :
         /\ _HALF_LIFE' = r.cache
         /\ half_life_reads' = r.reads
         /\ threads' =
              Ran(t, [fn |-> "half_life", l |-> r.l,
                      complete |-> IF threads.of[t].l.at = "get"
                                     THEN _HALF_LIFE = half_life_file.data
                                     ELSE threads.of[t].complete])
    /\ UNCHANGED <<callVars, mass_file, first,
                   _ATOMIC_MASS, mass_reads, half_life_file>>

NextThreads ==
  StartAtomicMass \/ StartHalfLife \/ StepAtomicMass \/ StepHalfLife

SpecThreads == InitThreads /\ [][NextThreads]_vars

---------------------------------------------------------------------------
\* half_life and decay_constant called in sequence.

\* A dataset with a zero and a negative entry.
OddData == [h3 |-> 0, tc99_m1 |-> -21624]

\* half_life.json as it may be found: absent, an empty mapping, or data.
HalfLifeFiles ==
  {[exists |-> FALSE, data |-> <<>>],
   [exists |-> TRUE, data |-> <<>>],
   [exists |-> TRUE, data |-> HalfLifeData],
   [exists |-> TRUE, data |-> OddData]}

\* A call of half_life moved on by one step unless it is over.
HalfLifeOn(file, s) ==
  IF s.l.at = "done" THEN s
  ELSE half_life_step(file, s.cache, s.reads, s.l)

\* half_life(isotope): [cache, reads, out]; the four steps with no other
\* thread in between.
half_life(file, cache, reads, isotope) ==
  LET r == HalfLifeOn(file, HalfLifeOn(file, HalfLifeOn(file,
             HalfLifeOn(file, [cache |-> cache, reads |-> reads,
                               l |-> HalfLifeCall(isotope)]))))
  IN  [cache |-> r.cache, reads |-> r.reads, out |-> r.l.out]

\* The float k * _LOG_TWO / t, kept as k and t; 0.0 is ZeroRate.
Rate(k, t) == [log_two |-> k, over |-> t]
ZeroRate == Rate(0, 1)

\* decay_constant(isotope): t = half_life(isotope);
\* return _LOG_TWO / t if t else 0.0.  None and 0 are the falsy values.
decay_constant(file, cache, reads, isotope) ==
  LET h == half_life(file, cache, reads, isotope)
  IN  IF h.out.kind = "raise" THEN h
      ELSE [cache |-> h.cache, reads |-> h.reads,
            out |-> IF h.out.val # None /\ h.out.val # Float(0)
                      THEN Return(Rate(1, h.out.val[1]))
                      ELSE Return(ZeroRate)]

HalfLifeArgs == {"H3", "h3", "Tc99_m1", "He4"}

InitHalfLife ==
  /\ pc = "call"
  /\ op = "none"
  /\ arg = ""
  /\ res = NoResult
  /\ res2 = NoResult
  /\ warnings = <<>>
  /\ mass_file = [exists |-> FALSE, rows |-> <<>>]
  /\ _ATOMIC_MASS = <<>>
  /\ mass_reads = 0
  /\ first = [isotope \in HalfLifeArgs |-> NoResult]
  /\ half_life_file \in HalfLifeFiles
  /\ _HALF_LIFE = <<>>
  /\ half_life_reads = 0
  /\ threads = <<>>

CallHalfLife ==
  \E isotope \in HalfLifeArgs :
  \E r \in {half_life(half_life_file, _HALF_LIFE, half_life_reads, isotope)} :
    /\ half_life_reads < MaxReads
    /\ _HALF_LIFE' = r.cache
    /\ half_life_reads' = r.reads
    /\ op' = "half_life" /\ arg' = isotope /\ res' = r.out
    /\ pc' = "returned"
    /\ first' = IF first[isotope].kind = "none"
                  THEN [first EXCEPT ![isotope] = r.out]
                  ELSE first
    /\ UNCHANGED <<res2, warnings, mass_file, _ATOMIC_MASS, mass_reads,
                   half_life_file, threads>>

CallDecayConstant ==
  \E isotope \in HalfLifeArgs :
  \E r \in {decay_constant(half_life_file, _HALF_LIFE, half_life_reads,
                           isotope)} :
    /\ half_life_reads < MaxReads
    /\ _HALF_LIFE' = r.cache
    /\ half_life_reads' = r.reads
    /\ op' = "decay_constant" /\ arg' = isotope /\ res' = r.out
    /\ pc' = "returned"
    /\ UNCHANGED <<res2, warnings, mass_file, _ATOMIC_MASS, mass_reads,
                   first, half_life_file, threads>>

NextHalfLife == CallHalfLife \/ CallDecayConstant

SpecHalfLife == InitHalfLife /\ [][NextHalfLife]_vars

---------------------------------------------------------------------------
\* water_density.  Temperatures are in units of 0.01 K and pressures in
\* units of 0.0001 MPa, so every number the checks compare with is an
\* integer: 100.0 MPa is 1000000, 273 K is 27300, 623.15 K is 62315 and
\* 0.2 K is 20.

\* ref_p = 16.53 MPa
ref_p == 165300
\* ref_T = 1386 K
ref_T == 138600

\* Sampled arguments: both sides of every comparison of the function.
Temperatures ==
  {-500, -1, 0, 1, 20000, 27299, 27300, 30000, 37331, 37332, 45000,
   62315, 62316, 70000}
Pressures ==
  {-10000, -1, 0, 1, 1013, 30000, 1000000, 1000001, 1173630, 2000000}

\* Lines 351-354: the pressure bounds.
CheckPressure_never_raises(pressure) ==
  IF pressure > 1000000
    THEN [warned |-> <<"Results are not valid for pressures above 100 MPa.">>,
          raised |-> NoResult]
  ELSE [warned |-> <<>>, raised |-> NoResult]

CheckPressure(pressure) ==
  IF pressure > 1000000
    THEN [warned |-> <<"Results are not valid for pressures above 100 MPa.">>,
          raised |-> NoResult]
  ELSE IF pressure < 0
    THEN [warned |-> <<>>,
          raised |-> Raise("ValueError", "Pressure must be positive.", {})]
  ELSE [warned |-> <<>>, raised |-> NoResult]

\* Lines 355-360: the temperature bounds, in the order the code tests them.
CheckTemperature(temperature) ==
  IF temperature < 27300
    THEN [warned |->
            <<"Results are not valid for temperatures below 273.15 K.">>,
          raised |-> NoResult]
  ELSE IF temperature > 62315
    THEN [warned |->
            <<"Results are not valid for temperatures above 623.15 K.">>,
          raised |-> NoResult]
  ELSE IF temperature <= 0
    THEN [warned |-> <<>>,
          raised |-> Raise("ValueError", "Temperature must be positive.", {})]
  ELSE [warned |-> <<>>, raised |-> NoResult]

\* Lines 362-375: the region-4 saturation temperature at the given pressure,
\* rounded down to 0.01 K, at the sampled pressures.  F**2 - 4*E*G is
\* negative below 5.7e-9 MPa, which on this grid is pressure 0: sqrt then
\* raises ValueError('math domain error').  A negative pressure, which the
\* check above keeps out, would make pressure**0.25 complex and sqrt raise
\* TypeError.
T_sat(pressure) ==
  CASE pressure < 0       ->
         Raise("TypeError", "must be real number, not complex", {})
    [] pressure = 0       -> Raise("ValueError", "math domain error", {})
    [] pressure = 1       -> Return(25054)
    [] pressure = 1013    -> Return(37311)
    [] pressure = 30000   -> Return(50700)
    [] pressure = 1000000 -> Return(65016)
    [] pressure = 1000001 -> Return(65016)
    [] pressure = 1173630 -> Return(65016)
    [] pressure = 2000000 -> Return(63857)

\* Lines 404-422: pi = pressure / ref_p, tau = ref_T / temperature, the sum
\* over the 34 terms and coeff / pi / gamma1_pi.  The float value itself is
\* not computed: the returned density is named by the point it belongs to.
\* The divisions and negative powers that fail are kept: ref_T / 0, and a
\* zero base 7.1 - pi (exponent I - 1 = -1) or tau - 1.222 (negative J).
Region1Density(temperature, pressure) ==
  IF temperature = 0
    THEN Raise("ZeroDivisionError", "division by zero", {})
  ELSE IF 10 * pressure = 71 * ref_p \/ 1000 * ref_T = 1222 * temperature
    THEN Raise("ZeroDivisionError",
               "0.0 cannot be raised to a negative power", {})
  ELSE Return([density_at |-> <<temperature, pressure>>])

\* water_density(temperature, pressure): [out, warned].
water_density(temperature, pressure) ==
  LET p == CheckPressure(pressure)
      t == CheckTemperature(temperature)
      sat == T_sat(pressure)
      above == IF temperature > sat.val + 20
                 THEN <<"Results are not valid for temperatures above saturation (above the boiling point).">>
                 ELSE <<>>
  IN  IF p.raised.kind = "raise"
        THEN [out |-> p.raised, warned |-> p.warned]
      ELSE IF t.raised.kind = "raise"
        THEN [out |-> t.raised, warned |-> p.warned \o t.warned]
      ELSE IF sat.kind = "raise"
        THEN [out |-> sat, warned |-> p.warned \o t.warned]
      ELSE [out |-> Region1Density(temperature, pressure),
            warned |-> p.warned \o t.warned \o above]

InitWater ==
  /\ pc = "call"
  /\ op = "water_density"
  /\ arg \in Temperatures \X Pressures
  /\ res = NoResult
  /\ res2 = NoResult
  /\ warnings = <<>>
  /\ NoData

CallWaterDensity ==
  /\ pc = "call" /\ op = "water_density"
  /\ LET r == water_density(arg[1], arg[2])
     IN  res' = r.out /\ warnings' = r.warned
  /\ pc' = "returned"
  /\ UNCHANGED <<op, arg, res2>>
  /\ UNCHANGED dataVars

NextWater == CallWaterDensity

SpecWater == InitWater /\ [][NextWater]_vars

---------------------------------------------------------------------------
\* The error taxonomy, read off the raise sites.

InvalidNuclideName(r) ==
  /\ r.kind = "raise"
  /\ r.msg = "does not appear to be a nuclide name in GNDS format"

UnknownSymbol(r) ==
  /\ r.kind = "raise"
  /\ r.msg = "is not a recognized element symbol"

\* A valid nuclide triple: a known atomic number, A >= 1, m >= 0.
ValidTriple(t) == t[1] \in 0..118 /\ t[2] >= 1 /\ t[3] >= 0

\* The grammar  Letter Letter? Digit+ ("_m" Digit+)?  over the whole string,
\* with the letters read as the name pattern reads them: a capital or "n",
\* then at most one lower-case letter.
MatchesGrammar(s) ==
  LET k == IF Ch(s, 2) \in Range(LowerChars) THEN 1 ELSE 0
      d == RunLen(s, 2 + k, Range(DigitChars))
      p == 2 + k + d
      e == RunLen(s, p + 2, Range(DigitChars))
  IN  /\ Ch(s, 1) \in Range(UpperChars) \cup {"n"}
      /\ d >= 1
      /\ \/ Len(s) = p - 1
         \/ Slice(s, p, p + 1) = "_m" /\ e >= 1 /\ Len(s) = p + 1 + e

\* The symbol letters of a string that matches the grammar.
GrammarSymbol(s) ==
  Slice(s, 1, IF Ch(s, 2) \in Range(LowerChars) THEN 2 ELSE 1)

\* Canonical form: symbol letters, the mass number without a leading zero
\* and, only for a state m >= 1, "_m" and m without a leading zero; nothing
\* else.
CanonicalName(s) ==
  LET k == RunLen(s, 2, Range(LowerChars))
      d == RunLen(s, 2 + k, Range(DigitChars))
      p == 2 + k + d
      e == RunLen(s, p + 2, Range(DigitChars))
  IN  /\ Ch(s, 1) \in Range(UpperChars) \cup {"n"}
      /\ d >= 1
      /\ d > 1 => Ch(s, 2 + k) # "0"
      /\ \/ Len(s) = p - 1
         \/ /\ Slice(s, p, p + 1) = "_m"
            /\ e >= 1
            /\ Ch(s, p + 2) # "0"
            /\ Len(s) = p + 1 + e

\* C1: for every valid triple (Z in 0..118, A >= 1, m >= 0) gnds_name
\* returns a name, and zam of that name returns the same triple.
C1_DecodeOfEncode ==
  (op = "gnds_name" /\ ValidTriple(arg)) =>
     /\ pc = "returned" => res.kind = "return"
     /\ pc = "roundtrip" => res2.kind = "return" /\ res2.val = arg

C1_Witness ==
  /\ pc = "roundtrip" /\ op = "gnds_name"
  /\ arg = <<43, 99, 1>>
  /\ res.val = "Tc99_m1"
  /\ res2.val = <<43, 99, 1>>

\* C2 as claimed: for every string s that zam accepts, gnds_name(*zam(s))
\* is s again.
C2_EncodeOfDecode_AnyAccepted ==
  (op = "zam" /\ pc = "roundtrip") =>
     res2.kind = "return" /\ res2.val = arg

\* C2 as amended: for every string s that zam accepts and that is in
\* canonical form, gnds_name(*zam(s)) is s again.
C2_EncodeOfDecode_Canonical ==
  (op = "zam" /\ pc = "roundtrip" /\ CanonicalName(arg)) =>
     res2.kind = "return" /\ res2.val = arg

C2_Witness ==
  /\ pc = "roundtrip" /\ op = "zam"
  /\ arg = "H1_m1"
  /\ res.val = <<1, 1, 1>>
  /\ res2.val = "H1_m1"

\* C3: zam returns a triple only for a string that matches the grammar as a
\* whole; a string that does not match fails as an invalid nuclide name, and
\* a matching string with a symbol outside the table fails as an unknown
\* element.
C3_DecodeGrammar ==
  (op = "zam" /\ pc # "call") =>
     /\ res.kind = "return" => MatchesGrammar(arg)
     /\ ~MatchesGrammar(arg) => InvalidNuclideName(res)
     /\ (MatchesGrammar(arg) /\ GrammarSymbol(arg) \notin DOMAIN ATOMIC_NUMBER)
          => UnknownSymbol(res)

InvalidPressure(r) ==
  r.kind = "raise" /\ r.msg = "Pressure must be positive."

InvalidTemperature(r) ==
  r.kind = "raise" /\ r.msg = "Temperature must be positive."

\* C4: water_density fails with InvalidTemperature for every temperature
\* <= 0 and any pressure >= 0, and returns no density.
C4_NonPositiveTemperatureFails ==
  (op = "water_density" /\ pc = "returned" /\ arg[1] <= 0 /\ arg[2] >= 0)
     => InvalidTemperature(res)

\* C10: water_density fails with InvalidPressure for every pressure < 0,
\* whatever the temperature, before the temperature and saturation checks
\* (no warning has been issued) and the main computation; no density is
\* returned.
C10_NegativePressureFails ==
  (op = "water_density" /\ pc = "returned" /\ arg[2] < 0)
     => InvalidPressure(res) /\ warnings = <<>>

C10_Witness ==
  /\ op = "water_density" /\ pc = "returned"
  /\ arg = <<30000, -10000>>
  /\ InvalidPressure(res)

UnknownElementName(r) ==
  r.kind = "raise" /\ r.msg = "Element name not recognised"

\* A known element: a symbol of the table, or a listed name in any case.
RecognizedElement(element) ==
  \/ element \in DOMAIN ATOMIC_NUMBER
  \/ lower(element) \in ElementNames

\* C8: isotopes fails with UnknownElement for every argument that is neither
\* a known symbol nor, in any case, a known name (strings of length 1 or 2
\* included), and returns an empty sequence only for a recognized element.
C8_UnknownElementFails ==
  (op = "isotopes" /\ pc = "returned") =>
     /\ ~RecognizedElement(arg) => UnknownElementName(res)
     /\ (res.kind = "return" /\ res.val = <<>>) => RecognizedElement(arg)

NoNaturalIsotopes(r) ==
  r.kind = "raise" /\ r.msg = "No naturally-occurring isotopes for element"

\* The symbol of a recognized element given by symbol or by name.
SymbolOf(element) ==
  IF element \in DOMAIN ATOMIC_NUMBER THEN element
  ELSE DictGet(ELEMENT_SYMBOL, lower(element)).value

\* Whether the abundance table has an entry symbol + mass number.
HasAbundanceEntry(symbol) ==
  \E i \in 1..Len(NATURAL_ABUNDANCE) :
    LET key == NATURAL_ABUNDANCE[i][1]
    IN  /\ Len(key) > Len(symbol)
        /\ Slice(key, 1, Len(symbol)) = symbol
        /\ \A n \in (Len(symbol) + 1)..Len(key) :
              Ch(key, n) \in Range(DigitChars)

\* C9: atomic_weight fails with NoNaturalIsotopes exactly when the element
\* is recognized and has no entry in the abundance table; for an
\* unrecognized element it fails with UnknownElement.
C9_NoNaturalIsotopesDistinct ==
  (op = "atomic_weight" /\ pc = "returned") =>
     /\ NoNaturalIsotopes(res) <=>
          (RecognizedElement(arg) /\ ~HasAbundanceEntry(SymbolOf(arg)))
     /\ ~RecognizedElement(arg) => UnknownElementName(res)

\* C7: over any sequence of atomic_mass calls the mass table is opened at
\* most once, and a call gives what the first call with the same isotope
\* gave.
C7_ReadOnceSameResult ==
  /\ mass_reads <= 1
  /\ (op = "atomic_mass" /\ pc = "returned") => res = first[arg]

\* C5: whatever the interleaving of the threads, the mass table is opened
\* at most once and the half-life dataset is read at most once.
C5_AtMostOneLoad ==
  mass_reads <= 1 /\ half_life_reads <= 1

\* C6: whatever the interleaving of the threads, the cache a call of
\* atomic_mass or half_life read for its final lookup was the complete one.
C6_LookupSeesCompleteCache ==
  \A t \in Threads :
    (threads.of[t].fn # "none" /\ threads.of[t].l.at = "done")
       => threads.of[t].complete

\* C11: for every pressure >= 0 and temperature > 0 water_density returns a
\* density; the out-of-envelope conditions only add warnings.
C11_WarningsNeverFatal ==
  (op = "water_density" /\ pc = "returned" /\ arg[1] > 0 /\ arg[2] >= 0)
     => res.kind = "return"

\* The half-life the dataset on disk records for a name, None if it has none.
Recorded(isotope) ==
  IF lower(isotope) \in DOMAIN half_life_file.data
    THEN Float(half_life_file.data[lower(isotope)])
    ELSE None

\* C12: with the dataset in place decay_constant never fails; it returns
\* ln(2) / half-life when the recorded half-life is positive and 0.0 when
\* it is absent, zero or negative.
C12_DecayConstantTotal ==
  (op = "decay_constant" /\ pc = "returned" /\ half_life_file.exists) =>
     /\ res.kind = "return"
     /\ res.val = IF Recorded(arg) # None /\ Recorded(arg)[1] > 0
                    THEN Rate(1, Recorded(arg)[1])
                    ELSE ZeroRate

\* C13: whatever the dataset holds, it is read by the first half_life call
\* only, and a name it does not hold gives None, not an error.
C13_HalfLifeLoadedOnce ==
  /\ half_life_reads <= 1
  /\ (op = "half_life" /\ pc = "returned" /\ half_life_file.exists
        /\ Recorded(arg) = None) => res = Return(None)

\* The sum over items[1..k] of abundance x mass, the masses read in cache.
RECURSIVE WeightedSum(_, _, _)
WeightedSum(items, k, cache) ==
  IF k = 0 THEN <<0, 0>>
  ELSE Plus(WeightedSum(items, k - 1, cache),
            Times(items[k][2], cache[lower(items[k][1])]))

\* C14: once the mass cache is completely loaded, the entry E0 of each
\* lumped element E is the sum over isotopes(E) of abundance x mass, which
\* is what atomic_mass(E0) and atomic_weight(E) return.
C14_LumpedEqualsAtomicWeight ==
  (_ATOMIC_MASS = CompleteCache) =>
     \A e \in 1..Len(Lumped) :
       /\ (lower(Lumped[e]) \o "0") \in DOMAIN _ATOMIC_MASS
       /\ _ATOMIC_MASS[lower(Lumped[e]) \o "0"]
            = WeightedSum(LumpedIsotopes[e], Len(LumpedIsotopes[e]),
                          _ATOMIC_MASS)
       /\ (pc = "returned" /\ op = "atomic_weight" /\ arg = Lumped[e])
             => res = Return(_ATOMIC_MASS[lower(Lumped[e]) \o "0"])
       /\ (pc = "returned" /\ op = "atomic_mass" /\ arg = Lumped[e] \o "0")
             => res = Return(_ATOMIC_MASS[lower(Lumped[e]) \o "0"])

C14_Witness ==
  /\ pc = "returned" /\ op = "atomic_weight" /\ arg = "Tl"
  /\ _ATOMIC_MASS = CompleteCache
  /\ res = Return(_ATOMIC_MASS["tl0"])
  /\ first["Tl0"] = res

\* C15: the errors of water_density for an invalid pressure or temperature
\* carry the offending value in their message (the part of the claim on
\* water_density; its other errors are those of zam, isotopes, atomic_mass
\* and atomic_weight).
C15_ErrorsCarryValue ==
  (op = "water_density" /\ pc = "returned") =>
     /\ InvalidPressure(res) => arg[2] \in res.shown
     /\ InvalidTemperature(res) => arg[1] \in res.shown

\* The key the loader stores line i of the table under.
RowKey(row) == lower(strip(row.el) \o str(int(strip(row.A))))

\* The cache holds every line of the table on disk and the five lumped
\* entries with their final sums.
CompleteFor(file, cache) ==
  /\ \A i \in 1..Len(file.rows) :
       IsNumber(file.rows[i].A) /\ RowKey(file.rows[i]) \in DOMAIN cache
  /\ \A e \in 1..Len(Lumped) :
       /\ (lower(Lumped[e]) \o "0") \in DOMAIN cache
       /\ \A k \in 1..Len(LumpedIsotopes[e]) :
            lower(LumpedIsotopes[e][k][1]) \in DOMAIN cache
       /\ cache[lower(Lumped[e]) \o "0"]
            = WeightedSum(LumpedIsotopes[e], Len(LumpedIsotopes[e]), cache)

\* C16: after any call of atomic_mass has returned or raised, the mass
\* cache is empty or complete.
C16_CacheEmptyOrComplete ==
  (pc = "returned" /\ op = "atomic_mass") =>
     \/ DOMAIN _ATOMIC_MASS = {}
     \/ CompleteFor(mass_file, _ATOMIC_MASS)

\* The element symbol an abundance key starts with: its leading letters.
KeySymbol(key) ==
  Slice(key, 1, RunLen(key, 1, Range(UpperChars) \cup Range(LowerChars)))

\* The abundance entries of the element with this symbol, in table order.
EntriesOf(symbol) ==
  SelectSeq(NATURAL_ABUNDANCE, LAMBDA kv : KeySymbol(kv[1]) = symbol)

\* C17: for a known element, given by symbol or by any spelling in case of
\* one of its names, isotopes returns exactly the abundance entries of that
\* element, in table order, and the same for the name as for the symbol.
C17_IsotopesOfElementOnly ==
  (op = "isotopes" /\ pc = "returned" /\ RecognizedElement(arg)) =>
     /\ res = Return(EntriesOf(SymbolOf(arg)))
     /\ res = isotopes(SymbolOf(arg))

C17_Witness ==
  /\ op = "isotopes" /\ pc = "returned"
  /\ arg = "HYDROGEN"
  /\ res = Return(<<NATURAL_ABUNDANCE[1], NATURAL_ABUNDANCE[2]>>)
  /\ NATURAL_ABUNDANCE[3][1] = "He3"

====
